---- MODULE Spec2Model ----
(***************************************************************************)
(* Exercise tracker (src/index.js): an express application over two        *)
(* mongoose collections, User and Exercise.                                *)
(*                                                                         *)
(* Every route handler is an async function: it runs synchronously up to   *)
(* its next `await` on the store and is resumed when the store answers.    *)
(* The model has one action per such segment, so that the segments of      *)
(* requests in flight interleave the way the event loop interleaves them.  *)
(*                                                                         *)
(* Values.  A request field is a JavaScript value [t, v]: t is its type    *)
(* ("undefined", "string", "number") and v its text as a sequence of       *)
(* one-character strings (String(x) for a number).  Time is counted in     *)
(* half days since the epoch (UTC).  Calendar syntax is abridged to one    *)
(* digit: the string "k" stands for the ISO date-only string of day k,     *)
(* which ECMAScript reads as midnight UTC of that day.  A rendered date    *)
(* (toDateString) is the number of the calendar day in the server's local  *)
(* time zone.                                                              *)
(***************************************************************************)
EXTENDS Integers, Sequences, FiniteSets

VARIABLES users, exercises, now, tz, reqs

vars == <<users, exercises, now, tz, reqs>>

----------------------------------------------------------------------------
(* Bounds of the model *)

MaxUsers == 2
MaxExercises == 1
MaxLogged == 3
MaxNow == 1

----------------------------------------------------------------------------
(* JavaScript values and the conversions the handlers apply to them *)

Undefined == [t |-> "undefined", v |-> <<>>]
Str(s) == [t |-> "string", v |-> s]
Num(s) == [t |-> "number", v |-> s]

Digits == {"0", "1", "2", "3", "4", "5", "6", "7", "8", "9"}

DigitVal(c) ==
  CASE c = "0" -> 0 [] c = "1" -> 1 [] c = "2" -> 2 [] c = "3" -> 3
    [] c = "4" -> 4 [] c = "5" -> 5 [] c = "6" -> 6 [] c = "7" -> 7
    [] c = "8" -> 8 [] c = "9" -> 9

IsSpace(c) == c = " "

\* x === undefined in place of !x
Falsy_UndefinedOnly(x) == x.t = "undefined"

\* !x
Falsy(x) ==
  \/ x.t = "undefined"
  \/ x.t = "string" /\ x.v = <<>>
  \/ x.t = "number" /\ x.v = <<"0">>

\* x.trim is a function only when x is a string
HasTrim(x) == x.t = "string"

RECURSIVE TrimStart(_)
TrimStart(s) ==
  IF s # <<>> /\ IsSpace(Head(s)) THEN TrimStart(Tail(s)) ELSE s

RECURSIVE TrimEnd(_)
TrimEnd(s) ==
  IF s # <<>> /\ IsSpace(s[Len(s)]) THEN TrimEnd(SubSeq(s, 1, Len(s) - 1)) ELSE s

\* trimStart in place of trim
Trim_StartOnly(s) == TrimStart(s)

\* String.prototype.trim
Trim(s) == TrimEnd(TrimStart(s))

NaN == [nan |-> TRUE, n |-> 0]
Number(k) == [nan |-> FALSE, n |-> k]

RECURSIVE DigitPrefix(_, _, _)
DigitPrefix(s, acc, seen) ==
  IF s # <<>> /\ Head(s) \in Digits
    THEN DigitPrefix(Tail(s), 10 * acc + DigitVal(Head(s)), TRUE)
    ELSE IF seen THEN Number(acc) ELSE NaN

Negate(r) == IF r.nan THEN r ELSE Number(0 - r.n)

\* parseInt(x, 10): String(x), leading white space skipped, an optional sign,
\* then the longest prefix of decimal digits; NaN when there is none
ParseInt(x) ==
  LET s == TrimStart(IF x.t = "undefined"
                       THEN <<"u", "n", "d", "e", "f", "i", "n", "e", "d">>
                       ELSE x.v)
  IN  IF s # <<>> /\ Head(s) = "-" THEN Negate(DigitPrefix(Tail(s), 0, FALSE))
      ELSE IF s # <<>> /\ Head(s) = "+" THEN DigitPrefix(Tail(s), 0, FALSE)
      ELSE DigitPrefix(s, 0, FALSE)

\* new Date(x).getTime()
DateTime(x) ==
  IF x.t = "string" /\ Len(x.v) = 1 /\ x.v[1] \in Digits
    THEN Number(2 * DigitVal(x.v[1]))
    ELSE NaN

\* Date.prototype.toDateString: the calendar day of instant t in local time
ToDateString(t) == (t + tz) \div 2

----------------------------------------------------------------------------
(* Requests in flight *)

Slots == {1, 2}

NoUser == [_id |-> 0, username |-> <<>>]
NoDoc == [userId |-> 0, description |-> <<>>, duration |-> NaN, date |-> NaN]
NoQuery == [userId |-> 0, hasDate |-> FALSE, gte |-> {}, lte |-> {}, limit |-> {}]
NoRes == [username |-> <<>>, _id |-> 0, description |-> <<>>, duration |-> NaN,
          date |-> 0, count |-> 0, list |-> <<>>, log |-> <<>>]

Idle ==
  [op |-> "none", pc |-> "idle",
   _id |-> 0,
   username |-> Undefined, description |-> Undefined, duration |-> Undefined,
   date |-> Undefined, from |-> Undefined, to |-> Undefined, limit |-> Undefined,
   user |-> NoUser, doc |-> NoDoc, q |-> NoQuery,
   status |-> 0, error |-> "", res |-> NoRes]

\* a handler is entered for a request only on a connection whose earlier
\* request is answered
Free(r) == reqs[r].pc \in {"idle", "done"}

\* res.status(code).json({ error })
Fail(rq, code, msg) == [rq EXCEPT !.pc = "done", !.status = code, !.error = msg]

\* res.json(body)
Reply(rq, body) == [rq EXCEPT !.pc = "done", !.status = 200, !.res = body]

\* next(err) into the error handler
ServerError(rq) == Fail(rq, 500, "server error")

----------------------------------------------------------------------------
(* The store: mongoose over the collections User and Exercise *)

\* an _id that casts to ObjectId; findById rejects with a CastError otherwise
IsObjectId(id) == id > 0

\* userSchema: username is a String with trim: true
UserDoc(id, username) == [_id |-> id, username |-> Trim(username)]

\* exerciseSchema: description is a String with trim: true
ExerciseDoc(doc) == [doc EXCEPT !.description = Trim(doc.description)]

\* exerciseSchema: every path is required, duration casts to a Number and date
\* to a Date; the document is rejected (a ValidationError) otherwise
SchemaValid(ex) ==
  /\ IsObjectId(ex.userId)
  /\ ex.description # <<>>
  /\ ~ex.duration.nan
  /\ ~ex.date.nan

\* User.findById(id): the matching documents (none: the promise yields null)
FindById(id) == {u \in {users[i] : i \in DOMAIN users} : u._id = id}

\* a filter that leaves userId out
Matches_AnyUser(e, q) ==
  q.hasDate =>
    /\ q.gte # {} \/ q.lte # {}
    /\ \A f \in q.gte : e.date.n >= f
    /\ \A t \in q.lte : e.date.n <= t

\* the filter q of Exercise.find(q); {date: {}} matches no document
Matches(e, q) ==
  /\ e.userId = q.userId
  /\ q.hasDate =>
       /\ q.gte # {} \/ q.lte # {}
       /\ \A f \in q.gte : e.date.n >= f
       /\ \A t \in q.lte : e.date.n <= t

Matching(q) == {i \in DOMAIN exercises : Matches(exercises[i], q)}

\* find(q) with no sort: the documents in the order they were stored
SortedOrders_Natural(S) ==
  {p \in [1..Cardinality(S) -> S] : \A i, j \in DOMAIN p : i < j => p[i] < p[j]}

\* sort({ date: 1 }): the orders of the documents S by ascending date;
\* the store fixes no order among documents of the same date
SortedOrders(S) ==
  {p \in [1..Cardinality(S) -> S] :
     /\ \A i, j \in DOMAIN p : i # j => p[i] # p[j]
     /\ \A i, j \in DOMAIN p : i < j => exercises[p[i]].date.n <= exercises[p[j]].date.n}

\* the last n of the order in place of the first n
Limited_Last(p, q) ==
  IF q.limit = {} THEN p
  ELSE LET n == CHOOSE n \in q.limit : TRUE
       IN  SubSeq(p, IF n < Len(p) THEN Len(p) - n + 1 ELSE 1, Len(p))

\* limit(n) on the cursor when q.limit holds n
Limited(p, q) ==
  IF q.limit = {} THEN p
  ELSE LET n == CHOOSE n \in q.limit : TRUE
       IN  SubSeq(p, 1, IF n < Len(p) THEN n ELSE Len(p))

----------------------------------------------------------------------------
(* POST /api/users *)

CreateUser(r, username) ==
  /\ Free(r)
  /\ LET rq == [Idle EXCEPT !.op = "CreateUser", !.username = username]
     IN  reqs' = [reqs EXCEPT ![r] =
           IF Falsy(username) THEN Fail(rq, 400, "username required")
           ELSE IF ~HasTrim(username) THEN ServerError(rq)
           ELSE IF Falsy(Str(Trim(username.v))) THEN Fail(rq, 400, "username required")
           ELSE [rq EXCEPT !.pc = "await_create",
                           !.user = [_id |-> 0, username |-> Trim(username.v)]]]
  /\ UNCHANGED <<users, exercises, now, tz>>

\* await User.create(...) settles
UserCreated(r) ==
  /\ reqs[r].op = "CreateUser" /\ reqs[r].pc = "await_create"
  /\ \/ /\ Len(users) < MaxUsers
        /\ LET user == UserDoc(Len(users) + 1, reqs[r].user.username)
           IN  /\ users' = Append(users, user)
               /\ reqs' = [reqs EXCEPT ![r] =
                    Reply([@ EXCEPT !.user = user],
                          [NoRes EXCEPT !.username = user.username, !._id = user._id])]
     \/ /\ reqs' = [reqs EXCEPT ![r] = ServerError(@)]
        /\ UNCHANGED users
  /\ UNCHANGED <<exercises, now, tz>>

(* GET /api/users *)

ListUsers(r) ==
  /\ Free(r)
  /\ reqs' = [reqs EXCEPT ![r] = [Idle EXCEPT !.op = "ListUsers", !.pc = "await_find"]]
  /\ UNCHANGED <<users, exercises, now, tz>>

\* the projection 'username _id' of a user
UserEntry(u) == [username |-> u.username, _id |-> u._id]

\* await User.find({}, 'username _id').lean() settles
UsersFound(r) ==
  /\ reqs[r].op = "ListUsers" /\ reqs[r].pc = "await_find"
  /\ \/ reqs' = [reqs EXCEPT ![r] =
          Reply(@, [NoRes EXCEPT !.list =
            [i \in DOMAIN users |-> UserEntry(users[i])]])]
     \/ reqs' = [reqs EXCEPT ![r] = ServerError(@)]
  /\ UNCHANGED <<users, exercises, now, tz>>

----------------------------------------------------------------------------
(* POST /api/users/:_id/exercises *)

CreateExercise(r, id, description, duration, date) ==
  /\ Free(r)
  /\ reqs' = [reqs EXCEPT ![r] =
       [Idle EXCEPT !.op = "CreateExercise", !.pc = "await_findById", !._id = id,
                    !.description = description, !.duration = duration, !.date = date]]
  /\ UNCHANGED <<users, exercises, now, tz>>

\* the handler from the user it found to Exercise.create(...)
ExerciseChecked(rq, user) ==
  LET dur == ParseInt(rq.duration)
      d == DateTime(rq.date)
      bad == Fail(rq, 400, "description and duration required (duration must be a number)")
  IN  IF Falsy(rq.description) THEN bad
      ELSE IF ~HasTrim(rq.description) THEN ServerError(rq)
      ELSE IF Falsy(Str(Trim(rq.description.v))) \/ dur.nan THEN bad
      ELSE [rq EXCEPT !.pc = "await_create", !.user = user,
                      !.doc = [userId |-> user._id,
                               description |-> Trim(rq.description.v),
                               duration |-> dur,
                               date |-> IF Falsy(rq.date) \/ d.nan THEN Number(now) ELSE d]]

\* the body validated before the user is looked for
ExerciseUserFound_ValidateFirst(r) ==
  /\ reqs[r].op = "CreateExercise" /\ reqs[r].pc = "await_findById"
  /\ \/ /\ IsObjectId(reqs[r]._id)
        /\ LET found == FindById(reqs[r]._id)
               checked == ExerciseChecked(reqs[r],
                            IF found = {} THEN NoUser ELSE CHOOSE u \in found : TRUE)
           IN  reqs' = [reqs EXCEPT ![r] =
                 IF checked.pc = "done" \/ found # {} THEN checked
                 ELSE Fail(@, 400, "unknown userId")]
     \/ reqs' = [reqs EXCEPT ![r] = ServerError(@)]
  /\ UNCHANGED <<users, exercises, now, tz>>

\* req.params._id taken for the user, with no lookup
ExerciseUserFound_NoLookup(r) ==
  /\ reqs[r].op = "CreateExercise" /\ reqs[r].pc = "await_findById"
  /\ \/ /\ IsObjectId(reqs[r]._id)
        /\ reqs' = [reqs EXCEPT ![r] =
             ExerciseChecked(@, [_id |-> @._id, username |-> <<>>])]
     \/ reqs' = [reqs EXCEPT ![r] = ServerError(@)]
  /\ UNCHANGED <<users, exercises, now, tz>>

\* await User.findById(_id) settles
ExerciseUserFound(r) ==
  /\ reqs[r].op = "CreateExercise" /\ reqs[r].pc = "await_findById"
  /\ \/ /\ IsObjectId(reqs[r]._id)
        /\ reqs' = [reqs EXCEPT ![r] =
             IF FindById(@._id) = {} THEN Fail(@, 400, "unknown userId")
             ELSE ExerciseChecked(@, CHOOSE u \in FindById(@._id) : TRUE)]
     \/ reqs' = [reqs EXCEPT ![r] = ServerError(@)]
  /\ UNCHANGED <<users, exercises, now, tz>>

\* an upsert on userId in place of a create
ExerciseCreated_Upsert(r, cap) ==
  /\ reqs[r].op = "CreateExercise" /\ reqs[r].pc = "await_create"
  /\ \/ /\ LET ex == ExerciseDoc(reqs[r].doc)
               old == {i \in DOMAIN exercises : exercises[i].userId = ex.userId}
           IN  /\ SchemaValid(ex)
               /\ IF old # {}
                    THEN exercises' = [exercises EXCEPT ![CHOOSE i \in old : TRUE] = ex]
                    ELSE Len(exercises) < cap /\ exercises' = Append(exercises, ex)
               /\ reqs' = [reqs EXCEPT ![r] =
                    Reply(@, [NoRes EXCEPT !._id = reqs[r].user._id,
                                           !.username = reqs[r].user.username,
                                           !.description = ex.description,
                                           !.duration = ex.duration,
                                           !.date = ToDateString(ex.date.n)])]
     \/ /\ reqs' = [reqs EXCEPT ![r] = ServerError(@)]
        /\ UNCHANGED exercises
  /\ UNCHANGED <<users, now, tz>>

\* await Exercise.create(...) settles
ExerciseCreated(r, cap) ==
  /\ reqs[r].op = "CreateExercise" /\ reqs[r].pc = "await_create"
  /\ \/ /\ Len(exercises) < cap
        /\ LET ex == ExerciseDoc(reqs[r].doc)
           IN  /\ SchemaValid(ex)
               /\ exercises' = Append(exercises, ex)
               /\ reqs' = [reqs EXCEPT ![r] =
                    Reply(@, [NoRes EXCEPT !._id = reqs[r].user._id,
                                           !.username = reqs[r].user.username,
                                           !.description = ex.description,
                                           !.duration = ex.duration,
                                           !.date = ToDateString(ex.date.n)])]
     \/ /\ reqs' = [reqs EXCEPT ![r] = ServerError(@)]
        /\ UNCHANGED exercises
  /\ UNCHANGED <<users, now, tz>>

----------------------------------------------------------------------------
(* GET /api/users/:_id/logs *)

ListLogs(r, id, from, to, limit) ==
  /\ Free(r)
  /\ reqs' = [reqs EXCEPT ![r] =
       [Idle EXCEPT !.op = "ListLogs", !.pc = "await_findById", !._id = id,
                    !.from = from, !.to = to, !.limit = limit]]
  /\ UNCHANGED <<users, exercises, now, tz>>

\* a bound of the date filter: the instant of a value that is given and valid
Bound(x) == IF ~Falsy(x) /\ ~DateTime(x).nan THEN {DateTime(x).n} ELSE {}

\* the date filter dropped whole when either bound is invalid
DateFilter_AllOrNothing(from, to) ==
  IF (Falsy(from) \/ Bound(from) # {}) /\ (Falsy(to) \/ Bound(to) # {})
    THEN [hasDate |-> Bound(from) # {} \/ Bound(to) # {},
          gte |-> Bound(from), lte |-> Bound(to)]
    ELSE [hasDate |-> FALSE, gte |-> {}, lte |-> {}]

\* q.date: set when from or to is given, deleted again when it has no key
DateFilter(from, to) ==
  IF ~Falsy(from) \/ ~Falsy(to)
    THEN [hasDate |-> Bound(from) # {} \/ Bound(to) # {},
          gte |-> Bound(from), lte |-> Bound(to)]
    ELSE [hasDate |-> FALSE, gte |-> {}, lte |-> {}]

\* the cursor is limited when parseInt(limit, 10) is a number above 0
LimitOf(limit) ==
  LET lim == ParseInt(limit)
  IN  IF ~lim.nan /\ lim.n > 0 THEN {lim.n} ELSE {}

\* the handler from the user it found to the query it builds
BuildQuery(rq, user) ==
  LET f == DateFilter(rq.from, rq.to)
  IN  [rq EXCEPT !.pc = "await_find", !.user = user,
                 !.q = [userId |-> user._id, hasDate |-> f.hasDate,
                        gte |-> f.gte, lte |-> f.lte, limit |-> LimitOf(rq.limit)]]

\* await User.findById(_id) settles
LogsUserFound(r) ==
  /\ reqs[r].op = "ListLogs" /\ reqs[r].pc = "await_findById"
  /\ \/ /\ IsObjectId(reqs[r]._id)
        /\ reqs' = [reqs EXCEPT ![r] =
             IF FindById(@._id) = {} THEN Fail(@, 400, "unknown userId")
             ELSE BuildQuery(@, CHOOSE u \in FindById(@._id) : TRUE)]
     \/ reqs' = [reqs EXCEPT ![r] = ServerError(@)]
  /\ UNCHANGED <<users, exercises, now, tz>>

\* exercises.map(...): an entry of the log
LogEntry(e) ==
  [description |-> e.description, duration |-> e.duration, date |-> ToDateString(e.date.n)]

\* await cursor.lean() settles
LogsFound(r) ==
  /\ reqs[r].op = "ListLogs" /\ reqs[r].pc = "await_find"
  /\ \/ \E p \in SortedOrders(Matching(reqs[r].q)) :
          LET found == Limited(p, reqs[r].q)
              log == [i \in DOMAIN found |-> LogEntry(exercises[found[i]])]
          IN  reqs' = [reqs EXCEPT ![r] =
                Reply(@, [NoRes EXCEPT !.username = reqs[r].user.username,
                                       !.count = Len(log),
                                       !._id = reqs[r].user._id,
                                       !.log = log])]
     \/ reqs' = [reqs EXCEPT ![r] = ServerError(@)]
  /\ UNCHANGED <<users, exercises, now, tz>>

----------------------------------------------------------------------------
(* The clock read by new Date() *)

Tick ==
  /\ now < MaxNow
  /\ now' = now + 1
  /\ UNCHANGED <<users, exercises, tz, reqs>>

----------------------------------------------------------------------------
(* Requests the clients send *)

\* the requests of a family of clients: the values each field is drawn from
\* and the number of exercises they store at most
Serve(S, in) ==
  \/ \E r \in S : \E username \in in.usernames : CreateUser(r, username)
  \/ \E r \in S : UserCreated(r)
  \/ \E r \in S : ListUsers(r)
  \/ \E r \in S : UsersFound(r)
  \/ \E r \in S : \E id \in in.ids : \E description \in in.descriptions :
       \E duration \in in.durations : \E date \in in.dates :
         CreateExercise(r, id, description, duration, date)
  \/ \E r \in S : ExerciseUserFound(r)
  \/ \E r \in S : ExerciseCreated(r, in.cap)
  \/ \E r \in S : \E id \in in.ids : \E from \in in.froms : \E to \in in.tos :
       \E limit \in in.limits : ListLogs(r, id, from, to, limit)
  \/ \E r \in S : LogsUserFound(r)
  \/ \E r \in S : LogsFound(r)
  \/ Tick

Start(zones) ==
  /\ users = <<>>
  /\ exercises = <<>>
  /\ now = 0
  /\ tz \in zones
  /\ reqs = [r \in Slots |-> Idle]

Connection == {1}

UTC == {0}

TimeZones == {-1, 0, 1}

Init == Start(UTC)

\* two connections, every kind of username
Registering ==
  [ids |-> {1},
   usernames |-> {Undefined, Str(<<>>), Str(<<" ">>), Str(<<"a">>), Str(<<" ", "b", " ">>),
                  Num(<<"7">>)},
   descriptions |-> {Str(<<"x">>)},
   durations |-> {Str(<<"7">>)},
   dates |-> {Undefined},
   froms |-> {Undefined}, tos |-> {Undefined}, limits |-> {Undefined},
   cap |-> MaxExercises]

Next == Serve(Slots, Registering)

Spec == Init /\ [][Next]_vars

\* one connection, every kind of id and of body for an exercise
Addressing ==
  [ids |-> {0, 1, 2},
   usernames |-> {Str(<<"a">>)},
   descriptions |-> {Undefined, Str(<<" ">>), Str(<<"x", " ">>), Num(<<"7">>)},
   durations |-> {Undefined, Str(<<"x">>), Str(<<" ", "7", "x">>)},
   dates |-> {Undefined, Str(<<"x">>), Str(<<"1">>)},
   froms |-> {Undefined}, tos |-> {Undefined}, limits |-> {Undefined},
   cap |-> MaxExercises]

NextUnknown == Serve(Connection, Addressing)

SpecUnknown == Init /\ [][NextUnknown]_vars

\* one connection, every kind of date for an exercise, a server in any time zone
Dating ==
  [ids |-> {1},
   usernames |-> {Str(<<"a">>)},
   descriptions |-> {Str(<<"x", " ">>)},
   durations |-> {Str(<<" ", "7", "x">>)},
   dates |-> {Undefined, Str(<<>>), Str(<<"x">>), Str(<<"1">>), Str(<<"2">>)},
   froms |-> {Undefined}, tos |-> {Undefined}, limits |-> {Undefined},
   cap |-> MaxLogged]

InitZones == Start(TimeZones)

NextDate == Serve(Connection, Dating)

SpecDate == InitZones /\ [][NextDate]_vars

\* two connections whose requests interleave
Interleaving ==
  [ids |-> {1, 2},
   usernames |-> {Str(<<" ", "a">>)},
   descriptions |-> {Str(<<" ">>), Str(<<" ", "x">>)},
   durations |-> {Str(<<"7", "x">>)},
   dates |-> {Undefined, Str(<<"1">>)},
   froms |-> {Undefined}, tos |-> {Undefined}, limits |-> {Undefined},
   cap |-> MaxExercises]

NextConc == Serve(Slots, Interleaving)

SpecConc == Init /\ [][NextConc]_vars

\* one connection, logs read with every kind of from and to
Filtering ==
  [ids |-> {1, 2},
   usernames |-> {Str(<<"a">>)},
   descriptions |-> {Str(<<"x">>)},
   durations |-> {Str(<<"7">>)},
   dates |-> {Str(<<"0">>), Str(<<"1">>), Str(<<"2">>)},
   froms |-> {Undefined, Str(<<"x">>), Str(<<"1">>)},
   tos |-> {Undefined, Str(<<"x">>), Str(<<"1">>)},
   limits |-> {Undefined},
   cap |-> MaxLogged]

NextFilter == Serve(Connection, Filtering)

SpecFilter == Init /\ [][NextFilter]_vars

\* one connection, logs read with every kind of limit
Limiting ==
  [ids |-> {1, 2},
   usernames |-> {Str(<<"a">>)},
   descriptions |-> {Str(<<"x">>)},
   durations |-> {Str(<<"7">>)},
   dates |-> {Str(<<"0">>), Str(<<"1">>), Str(<<"2">>)},
   froms |-> {Undefined},
   tos |-> {Undefined},
   limits |-> {Undefined, Str(<<"x">>), Str(<<"0">>), Str(<<"-", "1">>), Str(<<"1">>),
               Str(<<"2", "x">>)},
   cap |-> MaxLogged]

NextLimit == Serve(Connection, Limiting)

SpecLimit == Init /\ [][NextLimit]_vars

\* one connection, exercises that differ in every field, logs read whole
Logging ==
  [ids |-> {1, 2},
   usernames |-> {Str(<<"a">>), Str(<<"b">>)},
   descriptions |-> {Str(<<"x">>)},
   durations |-> {Str(<<"5">>), Str(<<"7", "x">>)},
   dates |-> {Str(<<"1">>)},
   froms |-> {Undefined}, tos |-> {Undefined}, limits |-> {Undefined},
   cap |-> MaxLogged]

NextOwn == Serve(Connection, Logging)

SpecOwn == Init /\ [][NextOwn]_vars

----------------------------------------------------------------------------
(* What the claims speak of *)

\* request r is answered in this step
Settled(r) == reqs'[r] # reqs[r] /\ reqs'[r].pc = "done"

\* a request arrives on connection r in this step
Arrives(r) == reqs[r].pc \in {"idle", "done"} /\ reqs'[r] # reqs[r]

\* request r is answered: what it was and how it ended
Answered(r, op, status) ==
  reqs[r].op = op /\ reqs[r].pc = "done" /\ reqs[r].status = status

\* the store answers the query of a List Logs request in this step
LogRead(r) ==
  /\ reqs[r].op = "ListLogs" /\ reqs[r].pc = "await_find"
  /\ reqs'[r].pc = "done" /\ reqs'[r].status = 200

Known(id) == \E i \in DOMAIN users : users[i]._id = id

\* s without the white space around it
Stripped(s) ==
  LET ink == {i \in DOMAIN s : s[i] # " "}
  IN  IF ink = {} THEN <<>>
      ELSE SubSeq(s, CHOOSE i \in ink : \A j \in ink : i <= j,
                     CHOOSE i \in ink : \A j \in ink : j <= i)

\* a field that is missing, empty or white space only
Blank(x) == x.t = "undefined" \/ (x.t = "string" /\ \A i \in DOMAIN x.v : x.v[i] = " ")

\* a from, to or date that is given and names an instant
Given(x) == x.t = "string" /\ x.v # <<>> /\ ~DateTime(x).nan

\* the exercises stored for user id
Owned(id) == {i \in DOMAIN exercises : exercises[i].userId = id}

\* those of user id within the valid bounds among from and to
Within(id, from, to) ==
  {i \in Owned(id) :
     /\ Given(from) => exercises[i].date.n >= DateTime(from).n
     /\ Given(to) => exercises[i].date.n <= DateTime(to).n}

\* the log holds one entry for each exercise of S, and nothing else
SameEntries(log, S) ==
  \A e \in {log[k] : k \in DOMAIN log} \cup {LogEntry(exercises[i]) : i \in S} :
    Cardinality({k \in DOMAIN log : log[k] = e})
      = Cardinality({i \in S : LogEntry(exercises[i]) = e})

Ascending(log) == \A i, j \in DOMAIN log : i < j => log[i].date <= log[j].date

\* the k-th entry of the log is an exercise of S that has rank k by date
Earliest(log, S) ==
  \A k \in DOMAIN log : \E m \in S :
    /\ log[k] = LogEntry(exercises[m])
    /\ Cardinality({x \in S : exercises[x].date.n < exercises[m].date.n}) < k
    /\ k <= Cardinality({x \in S : exercises[x].date.n <= exercises[m].date.n})

----------------------------------------------------------------------------
(* C1 *)

\* C1, as stated: a successful Create User with username u answers with
\* exactly u and stores a user of exactly that name.
C1_Exact ==
  \A r \in Slots : Answered(r, "CreateUser", 200) =>
    /\ reqs[r].res.username = reqs[r].username.v
    /\ \E i \in DOMAIN users :
         users[i] = [_id |-> reqs[r].res._id, username |-> reqs[r].username.v]

C1_Step(r) ==
  /\ Settled(r) /\ reqs'[r].op = "CreateUser" /\ reqs'[r].status = 200 =>
       /\ reqs'[r].res.username = Stripped(reqs[r].username.v)
       /\ Len(users') = Len(users) + 1
       /\ users'[Len(users')] =
            [_id |-> reqs'[r].res._id, username |-> reqs'[r].res.username]
       /\ ~Known(reqs'[r].res._id)
  /\ Settled(r) /\ reqs'[r].op = "ListUsers" /\ reqs'[r].status = 200 =>
       LET list == reqs'[r].res.list
       IN  /\ \A i \in DOMAIN users : \E k \in DOMAIN list :
                list[k] = [username |-> users[i].username, _id |-> users[i]._id]
           /\ \A c \in Slots \ {r} : Answered(c, "CreateUser", 200) =>
                \E k \in DOMAIN list :
                  list[k] = [username |-> Stripped(reqs[c].username.v),
                             _id |-> reqs[c].res._id]

\* C1, amended: for every non-blank string username u, a successful Create
\* User answers with u stripped of the white space around it and with the
\* fresh id of the record it stores under that name, and every List Users
\* answered later holds an entry of that name and id.
C1_Thm == [][\A r \in Slots : C1_Step(r)]_vars

\* a user created from a name with white space around it, then listed
C1_Wit ==
  \E c, r \in Slots :
    /\ Answered(c, "CreateUser", 200)
    /\ reqs[c].username.v # reqs[c].res.username
    /\ Answered(r, "ListUsers", 200)
    /\ \E k \in DOMAIN reqs[r].res.list :
         reqs[r].res.list[k] = [username |-> reqs[c].res.username, _id |-> reqs[c].res._id]

----------------------------------------------------------------------------
(* C2 *)

C2_Step(r) ==
  /\ reqs'[r].op = "CreateUser" /\ Blank(reqs'[r].username) =>
       reqs'[r].pc = "done" /\ reqs'[r].status = 400
  /\ Arrives(r) /\ reqs'[r].op = "CreateUser" /\ Blank(reqs'[r].username) =>
       users' = users /\ exercises' = exercises

\* C2: Create User with a username that is missing, empty or white space only
\* is answered 400 in the step it arrives in, and that step leaves the users
\* and the exercises as they were.
C2_Thm == [][\A r \in Slots : C2_Step(r)]_vars

\* a white-space username refused while a user is stored
C2_Wit ==
  \E r \in Slots :
    /\ Answered(r, "CreateUser", 400)
    /\ reqs[r].username = Str(<<" ">>)
    /\ users # <<>>

----------------------------------------------------------------------------
(* C3 *)

\* C3, as stated: Create Exercise for an id that is not in the store always
\* ends in UnknownUser (400).
C3_Always ==
  \A r \in Slots :
    reqs[r].op = "CreateExercise" /\ reqs[r].pc = "done" /\ ~Known(reqs[r]._id) =>
      reqs[r].status = 400 /\ reqs[r].error = "unknown userId"

C3_Step(r) ==
  /\ reqs[r].op = "CreateExercise" /\ reqs[r].pc = "await_findById"
  /\ reqs'[r] # reqs[r]
  /\ ~Known(reqs[r]._id)
  => /\ reqs'[r].pc = "done"
     /\ users' = users /\ exercises' = exercises
     /\ \/ reqs'[r].status = 500
        \/ /\ reqs[r]._id > 0
           /\ reqs'[r].status = 400 /\ reqs'[r].error = "unknown userId"

\* C3, amended: Create Exercise for an id that is not in the store writes no
\* record and never ends in InvalidInput, whatever the description, duration
\* and date are: it ends in UnknownUser (400) when the id is well formed and
\* the lookup succeeds, and in StoreError (500) when the id is malformed or
\* the lookup fails.
C3_Thm == [][\A r \in Slots : C3_Step(r)]_vars

\* an unknown user reported for a body that is invalid too
C3_Wit ==
  \E r \in Slots :
    /\ Answered(r, "CreateExercise", 400)
    /\ reqs[r].error = "unknown userId"
    /\ Blank(reqs[r].description)
    /\ ParseInt(reqs[r].duration).nan
    /\ users # <<>>

----------------------------------------------------------------------------
(* C4 *)

\* C4: for an existing user and a valid description and duration, Create
\* Exercise stores and returns the current date when date is absent, empty or
\* unparseable, and stores and returns the date it is given otherwise.
C4_Claim ==
  \A r \in Slots : Answered(r, "CreateExercise", 200) =>
    \E i \in DOMAIN exercises :
      IF Given(reqs[r].date)
        THEN /\ exercises[i].date.n = 2 * DigitVal(reqs[r].date.v[1])
             /\ reqs[r].res.date = DigitVal(reqs[r].date.v[1])
        ELSE /\ exercises[i].date.n <= now
             /\ reqs[r].res.date = (exercises[i].date.n + tz) \div 2

----------------------------------------------------------------------------
(* C5 *)

C5_Step(r) ==
  LogRead(r) /\ Given(reqs[r].from) /\ Blank(reqs[r].to) /\ Blank(reqs[r].limit) =>
    /\ SameEntries(reqs'[r].res.log,
                   {i \in Owned(reqs[r]._id) :
                      exercises[i].date.n >= DateTime(reqs[r].from).n})
    /\ Ascending(reqs'[r].res.log)

\* C5: for an existing user and a valid from F, with no to and no limit, the
\* log holds one entry for each exercise of that user dated F or later, no
\* other entry, and its entries are in ascending order of date.
C5_Thm == [][\A r \in Slots : C5_Step(r)]_vars

\* a log from F that keeps two exercises and leaves an earlier one out
C5_Wit ==
  \E r \in Slots :
    /\ Answered(r, "ListLogs", 200)
    /\ Given(reqs[r].from) /\ Blank(reqs[r].to)
    /\ Len(reqs[r].res.log) = 2
    /\ reqs[r].res.log[1].date < reqs[r].res.log[2].date
    /\ \E i \in Owned(reqs[r]._id) : exercises[i].date.n < DateTime(reqs[r].from).n

----------------------------------------------------------------------------
(* C6 *)

C6_Step(r) ==
  LogRead(r) /\ Blank(reqs[r].limit) =>
    /\ SameEntries(reqs'[r].res.log, Within(reqs[r]._id, reqs[r].from, reqs[r].to))
    /\ ~Given(reqs[r].from) /\ ~Given(reqs[r].to) =>
         Len(reqs'[r].res.log) = Cardinality(Owned(reqs[r]._id))

\* C6: an invalid from or to is ignored and does not cancel the other bound:
\* the log holds exactly the exercises of the user within the valid bounds
\* among from and to, and all of them when neither is valid.
C6_Thm == [][\A r \in Slots : C6_Step(r)]_vars

\* an invalid from beside a valid to that leaves a later exercise out
C6_Wit ==
  \E r \in Slots :
    /\ Answered(r, "ListLogs", 200)
    /\ reqs[r].from = Str(<<"x">>) /\ Given(reqs[r].to)
    /\ Len(reqs[r].res.log) >= 1
    /\ Len(reqs[r].res.log) < Cardinality(Owned(reqs[r]._id))

----------------------------------------------------------------------------
(* C7 *)

C7_Step(r) ==
  LogRead(r) =>
    LET log == reqs'[r].res.log
        S == Within(reqs[r]._id, reqs[r].from, reqs[r].to)
        n == Cardinality(S)
        L == ParseInt(reqs[r].limit)
    IN  /\ reqs'[r].res.count = Len(log)
        /\ IF ~L.nan /\ L.n > 0
             THEN /\ Len(log) = (IF L.n < n THEN L.n ELSE n)
                  /\ Earliest(log, S)
             ELSE Len(log) = n /\ SameEntries(log, S)

\* C7: when limit parses as a positive integer L and n exercises match, the
\* log holds min(L, n) entries, the earliest ones in ascending order of date;
\* when limit is absent, not a number, zero or negative it holds all n; count
\* is the number of entries of the log.
C7_Thm == [][\A r \in Slots : C7_Step(r)]_vars

\* limit 1 on a user with three exercises of different dates
C7_Wit ==
  \E r \in Slots :
    /\ Answered(r, "ListLogs", 200)
    /\ ParseInt(reqs[r].limit) = Number(1)
    /\ reqs[r].res.count = 1
    /\ Cardinality(Owned(reqs[r]._id)) = 3
    /\ \A i \in Owned(reqs[r]._id) :
         /\ reqs[r].res.log[1].date <= (exercises[i].date.n + tz) \div 2
         /\ \A j \in Owned(reqs[r]._id) : i # j => exercises[i].date # exercises[j].date

----------------------------------------------------------------------------
(* C8 *)

\* C8: every stored exercise has the id of a stored user, a description that
\* is not blank and has no white space around it, a duration and a date that
\* are numbers (not NaN), whatever the interleaving of the requests.
C8_Thm ==
  \A i \in DOMAIN exercises :
    LET e == exercises[i]
    IN  /\ Known(e.userId)
        /\ e.description # <<>> /\ e.description = Stripped(e.description)
        /\ ~e.duration.nan /\ e.duration.n \in Int
        /\ ~e.date.nan /\ e.date.n \in Int

\* an exercise stored while another Create Exercise waits on the store and
\* the second user is not created yet
C8_Wit ==
  \E r, c \in Slots :
    /\ Answered(r, "CreateExercise", 200)
    /\ reqs[r].description.v # reqs[r].res.description
    /\ reqs[c].op = "CreateExercise" /\ reqs[c].pc = "await_findById"
    /\ ~Known(reqs[c]._id)
    /\ exercises # <<>>

----------------------------------------------------------------------------
(* C9 *)

C9_Step ==
  /\ \A i \in DOMAIN users : i \in DOMAIN users' /\ users'[i] = users[i]
  /\ \A i \in DOMAIN exercises : i \in DOMAIN exercises' /\ exercises'[i] = exercises[i]
  /\ \A r \in Slots : Settled(r) =>
       IF reqs'[r].op = "CreateUser" /\ reqs'[r].status = 200
         THEN Len(users') = Len(users) + 1 /\ exercises' = exercises
       ELSE IF reqs'[r].op = "CreateExercise" /\ reqs'[r].status = 200
         THEN Len(exercises') = Len(exercises) + 1 /\ users' = users
       ELSE users' = users /\ exercises' = exercises
  /\ (\A r \in Slots : ~Settled(r)) => users' = users /\ exercises' = exercises

\* C9: no step changes or removes a stored record; the step that answers a
\* successful Create User adds one user and no exercise, the one that answers
\* a successful Create Exercise adds one exercise and no user, and every
\* other step (a List Users, a List Logs, a 400, a 500, a request in flight)
\* leaves both collections as they were.
C9_Thm == [][C9_Step]_vars

\* a user and an exercise stored, one request failed and one in flight
C9_Wit ==
  \E r, c \in Slots :
    /\ Answered(r, "CreateExercise", 500)
    /\ reqs[c].op = "CreateUser" /\ reqs[c].pc = "await_create"
    /\ Len(users) = 1 /\ Len(exercises) = 1

----------------------------------------------------------------------------
(* C10 *)

C10_Step(r) ==
  LogRead(r) /\ Blank(reqs[r].from) /\ Blank(reqs[r].to) /\ Blank(reqs[r].limit) =>
    LET res == reqs'[r].res
    IN  /\ SameEntries(res.log, Owned(reqs[r]._id))
        /\ \A k \in DOMAIN res.log : \E i \in DOMAIN exercises :
             /\ exercises[i].userId = reqs[r]._id
             /\ res.log[k].description = exercises[i].description
             /\ res.log[k].duration = exercises[i].duration
             /\ res.log[k].date = (exercises[i].date.n + tz) \div 2
        /\ res.count = Cardinality(Owned(reqs[r]._id))
        /\ res._id = reqs[r]._id
        /\ \E i \in DOMAIN users :
             users[i]._id = reqs[r]._id /\ users[i].username = res.username

\* C10: with no from, to or limit, the log of user U holds one entry for each
\* exercise stored for U, with its description, duration and date, and no
\* entry of an exercise of another user; the id and username are those of U.
C10_Thm == [][\A r \in Slots : C10_Step(r)]_vars

\* the log of one user read whole while the other user has exercises too
C10_Wit ==
  \E r \in Slots :
    /\ Answered(r, "ListLogs", 200)
    /\ Len(reqs[r].res.log) = 2
    /\ reqs[r].res.log[1] # reqs[r].res.log[2]
    /\ Cardinality(Owned(reqs[r]._id)) = 2
    /\ \E i \in DOMAIN exercises : exercises[i].userId # reqs[r]._id
    /\ \E i, j \in DOMAIN users : users[i].username # users[j].username

====
